---- MODULE Spec2Model ----
(***************************************************************************)
(* Gomoku AI move selection (gomoku_ai.js): candidate generation, window   *)
(* scoring, win detection, minimax with alpha-beta and the three           *)
(* difficulty strategies of getBestMove.                                   *)
(*                                                                         *)
(* The board is mutated in place by the code and undone afterwards; the    *)
(* operators below therefore thread the board through every placement and  *)
(* every undo and return it next to their value.                           *)
(*                                                                         *)
(* Numbers.  evaluatePosition only ever adds pattern scores (multiples of  *)
(* 10) and -0.9 times pattern scores, which are integers and are exact in  *)
(* IEEE doubles, so integers model it.  The easy strategy's                *)
(* myScore - opponentScore * 0.8 is carried multiplied by 10.              *)
(***************************************************************************)
EXTENDS Integers, Sequences, FiniteSets, TLC

\* ------------------------------------------------------------------ bounds
\* Side of the square boards.
N == 6

\* Rows of the BLACK and of the WHITE line of the two-line boards.
RowA == 1
RowB == 4

\* Row and column of the cell emptied in the nearly full boards.
HoleRow == 2

\* First column and length of the lines of the two-line boards: no line, a
\* three, a four closed by the edge, an open four and a five.
LineShapes == { <<0, 0>>, <<1, 3>>, <<0, 4>>, <<1, 4>>, <<0, 5>> }

\* Shortest line of the line boards.
MinRun == 4

\* ------------------------------------------------------- program constants
EMPTY == 0
BLACK == 1
WHITE == 2

FIVE == 100000
OPEN_FOUR == 10000
FOUR == 1000
OPEN_THREE == 1000
THREE == 100
OPEN_TWO == 100
TWO == 10

\* Infinity / -Infinity: beyond every score the boards of the model can give.
Infinity == 2000000000
NegInfinity == -Infinity

\* topN and depth of the hard strategy.
topN == 8
hardDepth == 2

\* const BOARD_SIZE = board.length: every board of the model has side N.
BOARD_SIZE == N
Idx == 0 .. (BOARD_SIZE - 1)
Cells == {EMPTY, BLACK, WHITE}

Max(a, b) == IF a >= b THEN a ELSE b
Min(a, b) == IF a <= b THEN a ELSE b

\* board[row][col] = v
Place(board, row, col, v) == [board EXCEPT ![row][col] = v]

\* const opponent = player === BLACK ? WHITE : BLACK
Opponent(player) == IF player = BLACK THEN WHITE ELSE BLACK

\* --------------------------------------------------------- getPatternScore
getPatternScore(pieceCount, emptyCount) ==
    IF pieceCount = 5 THEN FIVE
    ELSE IF pieceCount = 4 /\ emptyCount = 1 THEN OPEN_FOUR
    ELSE IF pieceCount = 4 /\ emptyCount = 0 THEN FOUR
    ELSE IF pieceCount = 3 /\ emptyCount = 2 THEN OPEN_THREE
    ELSE IF pieceCount = 3 /\ emptyCount = 1 THEN THREE
    ELSE IF pieceCount = 2 /\ emptyCount = 3 THEN OPEN_TWO
    ELSE IF pieceCount = 2 /\ emptyCount = 2 THEN TWO
    ELSE 0

\* ------------------------------------------------------------ evaluateLine
\* Number of the five cells row + i*dx, col + i*dy (i = 0..4) holding v.
RECURSIVE CountLine(_, _, _, _, _, _, _)
CountLine(board, row, col, dx, dy, v, i) ==
    IF i = 5 THEN 0
    ELSE (IF board[row + i * dx][col + i * dy] = v THEN 1 ELSE 0)
         + CountLine(board, row, col, dx, dy, v, i + 1)

evaluateLine(board, row, col, dx, dy, player, opponent) ==
    LET playerCount == CountLine(board, row, col, dx, dy, player, 0)
        opponentCount == CountLine(board, row, col, dx, dy, opponent, 0)
        emptyCount == 5 - playerCount - opponentCount
    IN IF playerCount > 0 /\ opponentCount > 0 THEN 0
       ELSE IF playerCount > 0 /\ opponentCount = 0
            THEN getPatternScore(playerCount, emptyCount)
       ELSE IF opponentCount > 0 /\ playerCount = 0
            THEN -((getPatternScore(opponentCount, emptyCount) * 9) \div 10)
       ELSE 0

\* -------------------------------------------------------- evaluatePosition
\* evaluateLine reads nothing but the five cells of its window, so its value
\* is tabulated once per player over the 3^5 contents of a window (base-3
\* code, cell i weighing 3^i) and looked up from there.
WindowOf(code) ==
    [r \in {0} |-> [i \in 0 .. 4 |-> (code \div (3 ^ i)) % 3]]

LineTable ==
    [player \in {BLACK, WHITE} |->
        [code \in 0 .. 242 |->
            evaluateLine(WindowOf(code), 0, 0, 0, 1, player, Opponent(player))]]

\* evaluateLine(board, row, col, dx, dy, player, opponent) as evaluatePosition
\* calls it, on the window w = <<row, col, dx, dy>> (opponent is the other
\* player).
LineScore(board, w, player) ==
    LineTable[player][board[w[1]][w[2]]
                      + 3 * board[w[1] + w[3]][w[2] + w[4]]
                      + 9 * board[w[1] + 2 * w[3]][w[2] + 2 * w[4]]
                      + 27 * board[w[1] + 3 * w[3]][w[2] + 3 * w[4]]
                      + 81 * board[w[1] + 4 * w[3]][w[2] + 4 * w[4]]]

\* The evaluateLine calls of one (i, j) of the double loop, in the order of
\* the code: the windows <<i, j, dx, dy>> whose guard holds.
CellWindows(i, j) ==
       (IF j <= BOARD_SIZE - 5 THEN << <<i, j, 0, 1>> >> ELSE << >>)
    \o (IF i <= BOARD_SIZE - 5 THEN << <<i, j, 1, 0>> >> ELSE << >>)
    \o (IF i <= BOARD_SIZE - 5 /\ j <= BOARD_SIZE - 5
        THEN << <<i, j, 1, 1>> >> ELSE << >>)
    \o (IF i <= BOARD_SIZE - 5 /\ j >= 4
        THEN << <<i, j, 1, -1>> >> ELSE << >>)

\* for (i ...) for (j ...): the windows of the cells k, k + 1, ... in row-major
\* order (cell k is row k \div BOARD_SIZE, column k % BOARD_SIZE).
RECURSIVE WindowsFrom(_)
WindowsFrom(k) ==
    IF k >= BOARD_SIZE * BOARD_SIZE THEN << >>
    ELSE CellWindows(k \div BOARD_SIZE, k % BOARD_SIZE) \o WindowsFrom(k + 1)

Windows == WindowsFrom(0)

\* score += evaluateLine(...) over the windows lo .. hi (split in halves to
\* keep the evaluation shallow).
RECURSIVE SumWindows(_, _, _, _)
SumWindows(board, player, lo, hi) ==
    IF lo = hi
    THEN LineScore(board, Windows[lo], player)
    ELSE SumWindows(board, player, lo, (lo + hi) \div 2)
         + SumWindows(board, player, (lo + hi) \div 2 + 1, hi)

\* Every value a board can have.
BoardValues == [Idx -> [Idx -> Cells]]

\* evaluatePosition, as a function of its arguments.  (TLC evaluates the body
\* of a function in the context of the definition, not of the caller; the
\* same is done for checkWin and getValidMoves.)
evaluatePositionOf ==
    [board \in BoardValues, player \in {BLACK, WHITE} |->
        IF Len(Windows) = 0 THEN 0
        ELSE SumWindows(board, player, 1, Len(Windows))]

evaluatePosition(board, player) == evaluatePositionOf[board, player]

\* ---------------------------------------------------------------- checkWin
InBoard(r, c) == r >= 0 /\ r < BOARD_SIZE /\ c >= 0 /\ c < BOARD_SIZE

\* The counting loop "for (i = 1; i < 5; i++)" along (dRow, dCol): the number
\* of consecutive player stones met from step i on, before the first break.
RECURSIVE CountDir(_, _, _, _, _, _, _)
CountDir(board, row, col, dRow, dCol, player, i) ==
    IF i >= 5 THEN 0
    ELSE IF InBoard(row + i * dRow, col + i * dCol)
            /\ board[row + i * dRow][col + i * dCol] = player
         THEN 1 + CountDir(board, row, col, dRow, dCol, player, i + 1)
         ELSE 0

\* [dx, dy] of the code; the row moves by dy and the column by dx.
directions == << <<1, 0>>, <<0, 1>>, <<1, 1>>, <<1, -1>> >>

\* Variant that counts in the positive direction only.
DirCountForward(board, row, col, d, player) ==
    1 + CountDir(board, row, col, d[2], d[1], player, 1)

\* count of one direction: the stone itself, the positive and the negative sense.
DirCount(board, row, col, d, player) ==
    1 + CountDir(board, row, col, d[2], d[1], player, 1)
      + CountDir(board, row, col, -d[2], -d[1], player, 1)

checkWinOf ==
    [board \in BoardValues, row \in Idx, col \in Idx, player \in {BLACK, WHITE} |->
        \E k \in 1 .. Len(directions) :
            DirCount(board, row, col, directions[k], player) >= 5]

checkWin(board, row, col, player) == checkWinOf[board, row, col, player]

\* ----------------------------------------------------------- getValidMoves
\* Variant without the "dx = dy = 3" that leaves the neighbour loops: one
\* push per non-EMPTY neighbour.
NeighbourPushesNoBreak(board, i, j) ==
    Cardinality({ d \in (-2 .. 2) \X (-2 .. 2) :
        InBoard(i + d[1], j + d[2]) /\ board[i + d[1]][j + d[2]] # EMPTY })

\* The neighbourhood scan of the EMPTY cell (i, j): the number of times it
\* pushes the cell.  The scan pushes at the first non-EMPTY in-board cell at
\* offsets -2..2 and then sets dx = dy = 3, which ends both loops.
NeighbourPushes(board, i, j) ==
    IF \E dx \in -2 .. 2 : \E dy \in -2 .. 2 :
           InBoard(i + dx, j + dy) /\ board[i + dx][j + dy] # EMPTY
    THEN 1 ELSE 0

\* k copies of move m.
Copies(m, k) == [x \in 1 .. k |-> m]

\* First double loop over the cells lo .. hi (row-major): what it pushes.
RECURSIVE NearMoves(_, _, _)
NearMoves(board, lo, hi) ==
    IF lo = hi
    THEN LET i == lo \div BOARD_SIZE
             j == lo % BOARD_SIZE
         IN IF board[i][j] = EMPTY
            THEN Copies([row |-> i, col |-> j], NeighbourPushes(board, i, j))
            ELSE << >>
    ELSE NearMoves(board, lo, (lo + hi) \div 2)
         \o NearMoves(board, (lo + hi) \div 2 + 1, hi)

\* Fallback double loop over the cells lo .. hi: every EMPTY cell.
RECURSIVE EmptyMoves(_, _, _)
EmptyMoves(board, lo, hi) ==
    IF lo = hi
    THEN IF board[lo \div BOARD_SIZE][lo % BOARD_SIZE] = EMPTY
         THEN << [row |-> lo \div BOARD_SIZE, col |-> lo % BOARD_SIZE] >>
         ELSE << >>
    ELSE EmptyMoves(board, lo, (lo + hi) \div 2)
         \o EmptyMoves(board, (lo + hi) \div 2 + 1, hi)

getValidMovesOf ==
    [board \in BoardValues |->
        LET validMoves == NearMoves(board, 0, BOARD_SIZE * BOARD_SIZE - 1)
        IN IF Len(validMoves) = 0
           THEN EmptyMoves(board, 0, BOARD_SIZE * BOARD_SIZE - 1)
           ELSE validMoves]

\* Variant without the fallback to all EMPTY cells.
getValidMovesNearOnly(board) == NearMoves(board, 0, BOARD_SIZE * BOARD_SIZE - 1)

getValidMoves(board) == getValidMovesOf[board]

\* ------------------------------------------------------------------- loops
\* The body of the loop named loop: its k-th iteration from state st, env
\* being what the loop only reads.  Defined below, after the loop bodies.
RECURSIVE StepOf(_, _, _, _)

\* A "for (const x of list)" loop: its iterations lo .. hi in order, from
\* state st.  st.stop says that the loop has been left by return or break,
\* after which nothing runs.  (Split in halves to keep the evaluation shallow.)
RECURSIVE Iterate(_, _, _, _, _)
Iterate(loop, env, st, lo, hi) ==
    IF st.stop THEN st
    ELSE IF lo = hi THEN StepOf(loop, env, st, lo)
    ELSE Iterate(loop, env, Iterate(loop, env, st, lo, (lo + hi) \div 2),
                 (lo + hi) \div 2 + 1, hi)

\* ----------------------------------------------------------------- minimax
\* A returned score together with the board as the call leaves it.
Ret(score, board) == [score |-> score, board |-> board]

\* Variant with the comparison turned round.
CutoffInverted(alpha, beta) == alpha <= beta

\* if (beta <= alpha) break
Cutoff(alpha, beta) == beta <= alpha

\* State of a "for (const move of validMoves)" loop of minimax: the board, the
\* running alpha and beta, the running maxScore / minScore (best), and whether
\* the loop has been left by return or break (stop).
LoopState(board, alpha, beta, best, stop) ==
    [board |-> board, alpha |-> alpha, beta |-> beta, best |-> best, stop |-> stop]

\* Variant of the maximizing win return that leaves the stone on the board.
MaxWinReturnNoUndo(b1, move, depth, st) ==
    LoopState(b1, st.alpha, st.beta, FIVE * depth, TRUE)

\* Maximizing branch, win of player at move: undo and return FIVE * depth.
MaxWinReturn(b1, move, depth, st) ==
    LoopState(Place(b1, move.row, move.col, EMPTY), st.alpha, st.beta,
              FIVE * depth, TRUE)

\* Minimizing branch, win of opponent at move: undo and return -FIVE * depth.
MinWinReturn(b1, move, depth, st) ==
    LoopState(Place(b1, move.row, move.col, EMPTY), st.alpha, st.beta,
              -FIVE * depth, TRUE)

RECURSIVE minimax(_, _, _, _, _, _, _)

\* One iteration of the maximizing loop, on validMoves[k].
MaxStep(env, st, k) ==
    LET move == env.validMoves[k]
        b1 == Place(st.board, move.row, move.col, env.player)
    IN IF checkWin(b1, move.row, move.col, env.player)
       THEN MaxWinReturn(b1, move, env.depth, st)
       ELSE LET r == minimax(b1, env.depth - 1, st.alpha, st.beta, FALSE,
                             env.player, env.opponent)
                newAlpha == Max(st.alpha, r.score)
            IN LoopState(Place(r.board, move.row, move.col, EMPTY),
                         newAlpha, st.beta, Max(st.best, r.score),
                         Cutoff(newAlpha, st.beta))

\* One iteration of the minimizing loop, on validMoves[k].
MinStep(env, st, k) ==
    LET move == env.validMoves[k]
        b1 == Place(st.board, move.row, move.col, env.opponent)
    IN IF checkWin(b1, move.row, move.col, env.opponent)
       THEN MinWinReturn(b1, move, env.depth, st)
       ELSE LET r == minimax(b1, env.depth - 1, st.alpha, st.beta, TRUE,
                             env.player, env.opponent)
                newBeta == Min(st.beta, r.score)
            IN LoopState(Place(r.board, move.row, move.col, EMPTY),
                         st.alpha, newBeta, Min(st.best, r.score),
                         Cutoff(st.alpha, newBeta))

minimax(board, depth, alpha, beta, isMaximizing, player, opponent) ==
    IF depth = 0 THEN Ret(evaluatePosition(board, player), board)
    ELSE LET validMoves == getValidMoves(board)
             env == [validMoves |-> validMoves, depth |-> depth,
                     player |-> player, opponent |-> opponent]
         IN IF Len(validMoves) = 0
            THEN Ret(evaluatePosition(board, player), board)
            ELSE IF isMaximizing
                 THEN LET st == Iterate("max", env,
                                   LoopState(board, alpha, beta, NegInfinity, FALSE),
                                   1, Len(validMoves))
                      IN Ret(st.best, st.board)
                 ELSE LET st == Iterate("min", env,
                                   LoopState(board, alpha, beta, Infinity, FALSE),
                                   1, Len(validMoves))
                      IN Ret(st.best, st.board)

\* ------------------------------------------------------------- getBestMove
\* The null the code returns for "no move".
null == [row |-> -1, col |-> -1]

\* Variant of the 'medium' iteration without "goodMoves.length = 0".
MediumStepNoReset(env, st, k) ==
    LET move == env.validMoves[k]
        b1 == Place(st.board, move.row, move.col, env.player)
        score == evaluatePosition(b1, env.player)
        b2 == Place(b1, move.row, move.col, EMPTY)
    IN IF score >= st.bestScore
       THEN [board |-> b2, bestScore |-> score,
             goodMoves |-> Append(st.goodMoves, move), stop |-> FALSE]
       ELSE [board |-> b2, bestScore |-> st.bestScore, goodMoves |-> st.goodMoves,
             stop |-> FALSE]

\* case 'medium', one iteration: st = [board, bestScore, goodMoves].
MediumStep(env, st, k) ==
    LET move == env.validMoves[k]
        b1 == Place(st.board, move.row, move.col, env.player)
        score == evaluatePosition(b1, env.player)
        b2 == Place(b1, move.row, move.col, EMPTY)
    IN IF score > st.bestScore
       THEN [board |-> b2, bestScore |-> score, goodMoves |-> << move >>, stop |-> FALSE]
       ELSE IF score = st.bestScore
       THEN [board |-> b2, bestScore |-> st.bestScore,
             goodMoves |-> Append(st.goodMoves, move), stop |-> FALSE]
       ELSE [board |-> b2, bestScore |-> st.bestScore, goodMoves |-> st.goodMoves,
             stop |-> FALSE]

\* myScore - opponentScore * 0.8, times 10.
EasyScore(myScore, opponentScore) == 10 * myScore - 8 * opponentScore

\* case 'easy', one iteration: st = [board, bestScore, bestMove]; bestScore
\* is carried times 10 (-Infinity stays -Infinity).
EasyStep(env, st, k) ==
    LET move == env.validMoves[k]
        b1 == Place(st.board, move.row, move.col, env.player)
        myScore == evaluatePosition(b1, env.player)
        b2 == Place(b1, move.row, move.col, EMPTY)
        b3 == Place(b2, move.row, move.col, env.opponent)
        opponentScore == evaluatePosition(b3, env.opponent)
        b4 == Place(b3, move.row, move.col, EMPTY)
        score == EasyScore(myScore, opponentScore)
    IN IF score > st.bestScore
       THEN [board |-> b4, bestScore |-> score, bestMove |-> move, stop |-> FALSE]
       ELSE [board |-> b4, bestScore |-> st.bestScore, bestMove |-> st.bestMove,
             stop |-> FALSE]

\* case 'hard', validMoves.map(...), one callback: st = [board, list].
StaticStep(env, st, k) ==
    LET move == env.validMoves[k]
        b1 == Place(st.board, move.row, move.col, env.player)
        score == evaluatePosition(b1, env.player)
        b2 == Place(b1, move.row, move.col, EMPTY)
    IN [board |-> b2, list |-> Append(st.list, [move |-> move, score |-> score]),
        stop |-> FALSE]

\* Variant that compares the other way round.
BeforeAsc(a, b) == a.score - b.score < 0

\* The comparator (a, b) => b.score - a.score returns a negative number: a is
\* sorted before b.
Before(a, b) == b.score - a.score < 0

\* moveScores.sort((a, b) => b.score - a.score).  Array.prototype.sort is
\* stable: entries the comparator does not order keep their order in the list.
\* ahead[i] is the number of entries that end up in front of entry i.
SortDesc(list) ==
    LET n == Len(list)
        ahead == [i \in 1 .. n |->
                    Cardinality({ j \in 1 .. n :
                                    \/ Before(list[j], list[i])
                                    \/ (~Before(list[i], list[j]) /\ j < i) })]
    IN [k \in 1 .. n |-> list[CHOOSE i \in 1 .. n : ahead[i] = k - 1]]

\* case 'hard', one iteration of the search loop: st = [board, bestScore, bestMove].
HardStep(env, st, i) ==
    LET move == env.moveScores[i].move
        b1 == Place(st.board, move.row, move.col, env.player)
        r == minimax(b1, hardDepth, NegInfinity, Infinity, FALSE,
                     env.player, env.opponent)
        b2 == Place(r.board, move.row, move.col, EMPTY)
    IN IF r.score > st.bestScore
       THEN [board |-> b2, bestScore |-> r.score, bestMove |-> move, stop |-> FALSE]
       ELSE [board |-> b2, bestScore |-> st.bestScore, bestMove |-> st.bestMove,
             stop |-> FALSE]

\* The loop bodies by name.
StepOf(loop, env, st, k) ==
    CASE loop = "max" -> MaxStep(env, st, k)
      [] loop = "min" -> MinStep(env, st, k)
      [] loop = "medium" -> MediumStep(env, st, k)
      [] loop = "easy" -> EasyStep(env, st, k)
      [] loop = "static" -> StaticStep(env, st, k)
      [] loop = "hard" -> HardStep(env, st, k)

\* What the call returns and how it leaves the board.
Outcome(move, board) == [move |-> move, board |-> board]

\* The outcomes getBestMove can have.  Math.floor(Math.random() *
\* goodMoves.length) can be any index of goodMoves, so 'medium' has one
\* outcome per entry of goodMoves; the other cases have exactly one.
getBestMove(board, player, difficulty) ==
    LET opponent == Opponent(player)
        validMoves == getValidMoves(board)
        n == Len(validMoves)
        env == [validMoves |-> validMoves, player |-> player, opponent |-> opponent]
    IN IF n = 0 THEN { Outcome(null, board) }
       ELSE IF difficulty = "medium"
       THEN LET st == Iterate("medium", env,
                               [board |-> board, bestScore |-> NegInfinity,
                                goodMoves |-> << >>, stop |-> FALSE], 1, n)
            IN IF Len(st.goodMoves) > 0
               THEN { Outcome(st.goodMoves[i], st.board) : i \in 1 .. Len(st.goodMoves) }
               ELSE { Outcome(null, st.board) }
       ELSE IF difficulty = "easy"
       THEN LET st == Iterate("easy", env,
                               [board |-> board, bestScore |-> NegInfinity,
                                bestMove |-> null, stop |-> FALSE], 1, n)
            IN { Outcome(st.bestMove, st.board) }
       ELSE IF difficulty = "hard"
       THEN LET sc == Iterate("static", env,
                               [board |-> board, list |-> << >>, stop |-> FALSE], 1, n)
                moveScores == SortDesc(sc.list)
                st == Iterate("hard",
                              [moveScores |-> moveScores, player |-> player,
                               opponent |-> opponent],
                              [board |-> sc.board, bestScore |-> NegInfinity,
                               bestMove |-> null, stop |-> FALSE], 1, Min(topN, n))
            IN { Outcome(st.bestMove, st.board) }
       ELSE { Outcome(null, board) }

\* ------------------------------------------------------------------ boards
Players == {BLACK, WHITE}

\* The four line directions as (row step, column step).
LineDirections == { <<0, 1>>, <<1, 0>>, <<1, 1>>, <<1, -1>> }

EmptyBoard == [i \in Idx |-> [j \in Idx |-> EMPTY]]

\* b with the len cells (r + k*dr, c + k*dc), k = 0 .. len-1, set to v.
LineOn(b, r, c, dr, dc, len, v) ==
    [i \in Idx |-> [j \in Idx |->
        IF \E k \in 0 .. (len - 1) : i = r + k * dr /\ j = c + k * dc
        THEN v ELSE b[i][j]]]

\* A board without EMPTY cell, and the same with the cells of E emptied.
FullBoard ==
    [i \in Idx |-> [j \in Idx |->
        IF ((i \div 2) + j) % 2 = 0 THEN BLACK ELSE WHITE]]

FullBut(E) ==
    [i \in Idx |-> [j \in Idx |-> IF <<i, j>> \in E THEN EMPTY ELSE FullBoard[i][j]]]

\* The empty board, the full board, and the full board with one and with two
\* cells emptied.
CommonBoards ==
    { EmptyBoard, FullBoard, FullBut({<<HoleRow, HoleRow>>}),
      FullBut({<<HoleRow, HoleRow>>, <<0, BOARD_SIZE - 1>>}) }

\* Two horizontal lines: BLACK stones in row RowA and WHITE stones in row
\* RowB, each of a shape in LineShapes.
LinesIn(b, row, v) ==
    { LineOn(b, row, x[1], 0, 1, x[2], v) :
        x \in { y \in LineShapes : y[1] + y[2] <= BOARD_SIZE } }

TwoLineBoards ==
    UNION { LinesIn(b, RowB, WHITE) : b \in LinesIn(EmptyBoard, RowA, BLACK) }

ScenarioBoards == CommonBoards \cup TwoLineBoards

\* Four stones of one colour in one row with both end cells EMPTY, and nothing
\* else on the board.
OpenFourBoards ==
    { LineOn(EmptyBoard, r, s, 0, 1, 4, v) :
        <<r, s, v>> \in { x \in Idx \X Idx \X Players :
                            x[2] >= 1 /\ x[2] + 4 <= BOARD_SIZE - 1 } }

\* One line of len >= MinRun stones of colour v from (r, c) in direction
\* (dr, dc), either whole (hole = -1), or with one stone of the line removed
\* (hole in 0 .. len-1), or whole with the two cells next to its ends taken by
\* the other colour (those of them that are on the board).
LineSpecs ==
    { x \in Idx \X Idx \X LineDirections \X (MinRun .. BOARD_SIZE) :
        /\ InBoard(x[1] + (x[4] - 1) * x[3][1], x[2] + (x[4] - 1) * x[3][2]) }

Capped(b, r, c, dr, dc, len, v) ==
    [i \in Idx |-> [j \in Idx |->
        IF \/ (i = r - dr /\ j = c - dc)
           \/ (i = r + len * dr /\ j = c + len * dc)
        THEN v ELSE b[i][j]]]

LineBoard(x, v, hole, capped) ==
    LET line == LineOn(EmptyBoard, x[1], x[2], x[3][1], x[3][2], x[4], v)
        cut == IF hole < 0 THEN line
               ELSE Place(line, x[1] + hole * x[3][1], x[2] + hole * x[3][2], EMPTY)
    IN IF capped
       THEN Capped(cut, x[1], x[2], x[3][1], x[3][2], x[4], Opponent(v))
       ELSE cut

LineBoards ==
    { LineBoard(y[1], BLACK, y[2], y[3]) :
        y \in { z \in LineSpecs \X (-1 .. (BOARD_SIZE - 1)) \X BOOLEAN :
                  z[2] < z[1][4] /\ (z[3] => z[2] < 0) } }

\* ----------------------------------------------------------- state machine
\* gameBoard: the caller's board, which the calls mutate in place.
\* toMove: the player the caller moves for.
\* op, arg, ret: the call made ("none" before it), its arguments (arg.board is
\* the board as it was passed) and what it returned.
VARIABLES gameBoard, toMove, op, arg, ret

vars == << gameBoard, toMove, op, arg, ret >>

Difficulties == {"easy", "medium", "hard", "expert"}

\* The (alpha, beta) pairs minimax is called with.
AlphaBeta == { <<NegInfinity, Infinity>>, <<0, FIVE>> }

InitOn(B) ==
    /\ gameBoard \in B
    /\ toMove \in Players
    /\ op = "none"
    /\ arg = << >>
    /\ ret = << >>

Init == InitOn(ScenarioBoards)

\* getBestMove(board, player, difficulty)
CallGetBestMove(D) ==
    /\ op = "none"
    /\ \E difficulty \in D :
         \E out \in getBestMove(gameBoard, toMove, difficulty) :
            /\ gameBoard' = out.board
            /\ ret' = out.move
            /\ arg' = [board |-> gameBoard, difficulty |-> difficulty]
    /\ op' = "getBestMove"
    /\ UNCHANGED toMove

\* minimax(board, depth, alpha, beta, isMaximizing, player, opponent)
CallMinimax ==
    /\ op = "none"
    /\ \E depth \in 0 .. hardDepth, ab \in AlphaBeta, isMaximizing \in BOOLEAN :
         LET r == minimax(gameBoard, depth, ab[1], ab[2], isMaximizing,
                          toMove, Opponent(toMove))
         IN /\ gameBoard' = r.board
            /\ ret' = r.score
            /\ arg' = [board |-> gameBoard, depth |-> depth, alpha |-> ab[1],
                       beta |-> ab[2], isMaximizing |-> isMaximizing]
    /\ op' = "minimax"
    /\ UNCHANGED toMove

\* getValidMoves(board)
CallGetValidMoves ==
    /\ op = "none"
    /\ ret' = getValidMoves(gameBoard)
    /\ arg' = [board |-> gameBoard]
    /\ op' = "getValidMoves"
    /\ UNCHANGED << gameBoard, toMove >>

\* checkWin(board, row, col, player)
CallCheckWin ==
    /\ op = "none"
    /\ \E row \in Idx, col \in Idx :
         /\ ret' = checkWin(gameBoard, row, col, toMove)
         /\ arg' = [board |-> gameBoard, row |-> row, col |-> col, player |-> toMove]
    /\ op' = "checkWin"
    /\ UNCHANGED << gameBoard, toMove >>

Next ==
    \/ CallGetBestMove(Difficulties)
    \/ CallMinimax
    \/ CallGetValidMoves
    \/ CallCheckWin

\* Every operation on the two-line boards.
Spec == Init /\ [][Next]_vars

\* Every operation on the boards that hold one open four and nothing else.
InitOpenFour == InitOn(OpenFourBoards)

SpecOpenFour == InitOpenFour /\ [][Next]_vars

\* The operations without search on the line boards.
InitLines == InitOn(LineBoards \cup CommonBoards)

NextStatic ==
    \/ CallGetBestMove(Difficulties \ {"hard"})
    \/ CallGetValidMoves
    \/ CallCheckWin

SpecLines == InitLines /\ [][NextStatic]_vars

\* ------------------------------------------------------------- properties
\* The cells of board b as (row, column) pairs, and those that hold a stone.
AllCells == Idx \X Idx

Stones(b) == { x \in AllCells : b[x[1]][x[2]] # EMPTY }

Abs(x) == IF x < 0 THEN -x ELSE x

\* The EMPTY cells with a stone at most 2 rows and at most 2 columns away.
NearCells(b) ==
    { x \in AllCells :
        /\ b[x[1]][x[2]] = EMPTY
        /\ \E y \in Stones(b) : Abs(y[1] - x[1]) <= 2 /\ Abs(y[2] - x[2]) <= 2 }

CellsOf(moves) == { << moves[k].row, moves[k].col >> : k \in 1 .. Len(moves) }

RowMajor(move) == move.row * BOARD_SIZE + move.col

\* C7: getValidMoves never lists a cell twice and never a non-EMPTY cell; it
\* lists in row-major order exactly the EMPTY cells with a stone within
\* distance 2 in row and column when the board holds a stone, and all cells
\* when the board is empty.
C7_ValidMovesExact ==
    op = "getValidMoves" =>
        /\ \A k \in 1 .. (Len(ret) - 1) : RowMajor(ret[k]) < RowMajor(ret[k + 1])
        /\ \A k \in 1 .. Len(ret) : arg.board[ret[k].row][ret[k].col] = EMPTY
        /\ CellsOf(ret) = IF Stones(arg.board) = {} THEN AllCells
                          ELSE NearCells(arg.board)

\* getValidMoves has returned, for a board on which some EMPTY cell has more
\* than one stone in reach and some EMPTY cell has none.
C7_Witness ==
    /\ op = "getValidMoves"
    /\ \E x \in CellsOf(ret) :
          Cardinality({ y \in Stones(arg.board) :
                           Abs(y[1] - x[1]) <= 2 /\ Abs(y[2] - x[2]) <= 2 }) >= 2
    /\ \E x \in AllCells : arg.board[x[1]][x[2]] = EMPTY /\ x \notin CellsOf(ret)

\* Number of consecutive stones of p next to (r, c) in direction (dr, dc).
RunFrom(b, r, c, dr, dc, p) ==
    Cardinality({ k \in 1 .. BOARD_SIZE :
        \A h \in 1 .. k : /\ InBoard(r + h * dr, c + h * dc)
                          /\ b[r + h * dr][c + h * dc] = p })

\* Length of the maximal run of stones of p through (r, c) along d, for a cell
\* (r, c) that holds a stone of p.
RunThrough(b, r, c, d, p) ==
    1 + RunFrom(b, r, c, d[1], d[2], p) + RunFrom(b, r, c, -d[1], -d[2], p)

LongestRun(b, r, c, p) ==
    CHOOSE n \in 1 .. (2 * BOARD_SIZE) :
        /\ \E d \in LineDirections : RunThrough(b, r, c, d, p) = n
        /\ \A d \in LineDirections : RunThrough(b, r, c, d, p) <= n

\* C8: for a cell holding a stone of player, checkWin is true iff in one of
\* the four directions the maximal run of consecutive player stones through
\* the cell has length at least 5 (true for exactly five, false for four).
C8_CheckWinIffRunOfFive ==
    (op = "checkWin" /\ arg.board[arg.row][arg.col] = arg.player) =>
        (ret <=> LongestRun(arg.board, arg.row, arg.col, arg.player) >= 5)

\* checkWin has answered true for a stone in a run of exactly five along the
\* rising diagonal that is its longest run.
C8_Witness ==
    /\ op = "checkWin"
    /\ arg.board[arg.row][arg.col] = arg.player
    /\ ret = TRUE
    /\ LongestRun(arg.board, arg.row, arg.col, arg.player) = 5
    /\ RunThrough(arg.board, arg.row, arg.col, <<1, -1>>, arg.player) = 5

\* The candidates of b with the static score of the mover p after its stone is
\* placed there, as (move, score) pairs.
Scored(b, p) ==
    LET moves == getValidMoves(b)
    IN { << moves[k], evaluatePosition(Place(b, moves[k].row, moves[k].col, p), p) >> :
           k \in 1 .. Len(moves) }

\* The candidates whose static score is the maximum over all candidates.
TiedBest(b, p) ==
    LET S == Scored(b, p)
    IN { x[1] : x \in { y \in S : \A z \in S : z[2] <= y[2] } }

\* C6: on a board with a candidate, medium returns a candidate whose static
\* score is the maximum over all candidates, and each candidate attaining the
\* maximum is a possible return value.
C6_MediumTiedBest ==
    /\ (op = "getBestMove" /\ arg.difficulty = "medium"
            /\ Len(getValidMoves(arg.board)) > 0)
          => ret \in TiedBest(arg.board, toMove)
    /\ (op = "none" /\ Len(getValidMoves(gameBoard)) > 0)
          => TiedBest(gameBoard, toMove)
                \subseteq { out.move : out \in getBestMove(gameBoard, toMove, "medium") }

\* medium has returned a cell that is not the first of at least two cells tied
\* for the maximum, on a board that also has a strictly worse candidate.
C6_Witness ==
    /\ op = "getBestMove"
    /\ arg.difficulty = "medium"
    /\ LET tied == TiedBest(arg.board, toMove)
       IN /\ ret \in tied
          /\ \E m \in tied : RowMajor(m) < RowMajor(ret)
          /\ \E x \in Scored(arg.board, toMove) : x[1] \notin tied

\* C1: getBestMove with any difficulty, minimax, getValidMoves and checkWin
\* leave every cell of the board with the value it had when the call began.
C1_BoardRestored == op # "none" => gameBoard = arg.board

\* A minimax call of full depth has returned through the early return on a
\* win of the player, the return that sits between placing and the second undo.
C1_Witness ==
    /\ op = "minimax"
    /\ arg.depth = hardDepth
    /\ arg.isMaximizing
    /\ ret = FIVE * hardDepth
    /\ Stones(arg.board) # {}
    /\ gameBoard = arg.board

\* C2: for easy, medium and hard, getBestMove returns null iff the board has
\* no EMPTY cell, and otherwise a cell inside the board that is EMPTY.
C2_NullIffBoardFull ==
    (op = "getBestMove" /\ arg.difficulty \in {"easy", "medium", "hard"}) =>
        /\ (ret = null) <=> (Stones(arg.board) = AllCells)
        /\ ret # null => /\ InBoard(ret.row, ret.col)
                         /\ arg.board[ret.row][ret.col] = EMPTY

\* hard has returned the only EMPTY cell of a board.
C2_Witness ==
    /\ op = "getBestMove"
    /\ arg.difficulty = "hard"
    /\ Cardinality(AllCells \ Stones(arg.board)) = 1
    /\ << ret.row, ret.col >> \in AllCells \ Stones(arg.board)

\* A stone of p on the EMPTY cell (r, c) of b makes a run of five or more.
Completes(b, r, c, p) == LongestRun(Place(b, r, c, p), r, c, p) >= 5

\* The cells where p wins at once.
WinningCells(b, p) ==
    { x \in AllCells : b[x[1]][x[2]] = EMPTY /\ Completes(b, x[1], x[2], p) }

\* p has four consecutive stones from cell x in direction d, and the cells
\* before and behind them are on the board and EMPTY.
OpenFourAt(b, x, d, p) ==
    /\ \A k \in 0 .. 3 : /\ InBoard(x[1] + k * d[1], x[2] + k * d[2])
                         /\ b[x[1] + k * d[1]][x[2] + k * d[2]] = p
    /\ InBoard(x[1] - d[1], x[2] - d[2])
    /\ b[x[1] - d[1]][x[2] - d[2]] = EMPTY
    /\ InBoard(x[1] + 4 * d[1], x[2] + 4 * d[2])
    /\ b[x[1] + 4 * d[1]][x[2] + 4 * d[2]] = EMPTY

\* The end cells of the open fours of p.
OpenFourEnds(b, p) ==
    UNION { { << x[1] - d[1], x[2] - d[2] >>, << x[1] + 4 * d[1], x[2] + 4 * d[2] >> } :
              <<x, d>> \in { y \in AllCells \X LineDirections :
                               OpenFourAt(b, y[1], y[2], p) } }

\* C3: easy, on a board where the opponent has an open four and the mover has
\* no cell that wins at once, returns one of the two end cells of the four.
C3_EasyBlocksOpenFour ==
    (/\ op = "getBestMove"
     /\ arg.difficulty = "easy"
     /\ OpenFourEnds(arg.board, Opponent(toMove)) # {}
     /\ WinningCells(arg.board, toMove) = {})
        => << ret.row, ret.col >> \in OpenFourEnds(arg.board, Opponent(toMove))

\* C4: hard, on a board where the opponent has an open four and the mover has
\* no cell that wins at once, returns one of the two end cells of the four.
C4_HardBlocksOpenFour ==
    (/\ op = "getBestMove"
     /\ arg.difficulty = "hard"
     /\ OpenFourEnds(arg.board, Opponent(toMove)) # {}
     /\ WinningCells(arg.board, toMove) = {})
        => << ret.row, ret.col >> \in OpenFourEnds(arg.board, Opponent(toMove))

\* The board whose only stones are four of p in row r from column s.
OpenFourRow(r, s, p) == LineOn(EmptyBoard, r, s, 0, 1, 4, p)

\* C5: hard, on a board that holds four consecutive stones of the mover in
\* one row with both end cells EMPTY and no other stone, returns one of the
\* two cells that complete five.
C5_HardCompletesOpenFour ==
    (op = "getBestMove" /\ arg.difficulty = "hard") =>
        \A r \in Idx, s \in 1 .. (BOARD_SIZE - 5) :
            arg.board = OpenFourRow(r, s, toMove)
                => /\ ret \in { [row |-> r, col |-> s - 1], [row |-> r, col |-> s + 4] }
                   /\ Completes(arg.board, ret.row, ret.col, toMove)

\* hard has answered on the open four of the mover in the last row.
C5_Witness ==
    /\ op = "getBestMove"
    /\ arg.difficulty = "hard"
    /\ \E s \in 1 .. (BOARD_SIZE - 5) :
          /\ arg.board = OpenFourRow(BOARD_SIZE - 1, s, toMove)
          /\ ret \in { [row |-> BOARD_SIZE - 1, col |-> s - 1],
                       [row |-> BOARD_SIZE - 1, col |-> s + 4] }

\* C9: hard, on a board where some candidate cell completes five for the
\* mover, returns a cell that completes five for the mover.
C9_HardTakesWin ==
    (/\ op = "getBestMove"
     /\ arg.difficulty = "hard"
     /\ CellsOf(getValidMoves(arg.board)) \cap WinningCells(arg.board, toMove) # {})
        => << ret.row, ret.col >> \in WinningCells(arg.board, toMove)

\* The procedure of minimax without its two cutoffs: the same candidate order,
\* the same early return when checkWin sees a win, no alpha and beta.
\* UnprunedLoop runs the candidates lo .. hi of env.moves from the loop state
\* st = [best, stop], best being the maxScore / minScore so far and stop
\* saying that the early return has been taken.
RECURSIVE Unpruned(_, _, _, _, _)

UnprunedStep(env, st, k) ==
    LET who == IF env.isMaximizing THEN env.player ELSE env.opponent
        b1 == Place(env.board, env.moves[k].row, env.moves[k].col, who)
        score == Unpruned(b1, env.depth - 1, ~env.isMaximizing,
                          env.player, env.opponent)
    IN IF checkWin(b1, env.moves[k].row, env.moves[k].col, who)
       THEN [best |-> IF env.isMaximizing THEN FIVE * env.depth
                      ELSE -FIVE * env.depth,
             stop |-> TRUE]
       ELSE [best |-> IF env.isMaximizing THEN Max(st.best, score)
                      ELSE Min(st.best, score),
             stop |-> FALSE]

RECURSIVE UnprunedLoop(_, _, _, _)
UnprunedLoop(env, st, lo, hi) ==
    IF st.stop THEN st
    ELSE IF lo = hi THEN UnprunedStep(env, st, lo)
    ELSE UnprunedLoop(env, UnprunedLoop(env, st, lo, (lo + hi) \div 2),
                      (lo + hi) \div 2 + 1, hi)

Unpruned(b, depth, isMaximizing, p, opponent) ==
    LET moves == getValidMoves(b)
        env == [board |-> b, moves |-> moves, depth |-> depth,
                isMaximizing |-> isMaximizing, player |-> p, opponent |-> opponent]
    IN IF depth = 0 \/ Len(moves) = 0 THEN evaluatePosition(b, p)
       ELSE UnprunedLoop(env, [best |-> IF isMaximizing THEN NegInfinity ELSE Infinity,
                               stop |-> FALSE], 1, Len(moves)).best

\* C10: for depth 0, 1 and 2, either value of isMaximizing and the window
\* (-Infinity, Infinity), minimax returns the value of the same procedure
\* without the two cutoffs.
C10_PruningKeepsValue ==
    (op = "minimax" /\ arg.alpha = NegInfinity /\ arg.beta = Infinity) =>
        ret = Unpruned(arg.board, arg.depth, arg.isMaximizing,
                       toMove, Opponent(toMove))

\* A minimizing minimax call of full depth with the full window has returned
\* a value that is no win return, and the narrower window, which cuts off
\* earlier, returns another value on the same board.
C10_Witness ==
    /\ op = "minimax"
    /\ arg.depth = hardDepth
    /\ arg.alpha = NegInfinity
    /\ arg.beta = Infinity
    /\ ~arg.isMaximizing
    /\ ret \notin { FIVE * hardDepth, -FIVE * hardDepth, FIVE, -FIVE }
    /\ ret = Unpruned(arg.board, arg.depth, arg.isMaximizing, toMove, Opponent(toMove))
    /\ minimax(arg.board, arg.depth, 0, FIVE, arg.isMaximizing,
               toMove, Opponent(toMove)).score # ret

====
